---- MODULE Spec2Model ----
(***************************************************************************)
(* Flappy Jungle Shooter (src/game.py): the GamePanel session as a state   *)
(* machine.  One record, gp, holds the fields of the GamePanel object that *)
(* the simulation reads or writes; every handler of the panel (on_timer,   *)
(* on_key_down and what they call) is an operator from a panel record to   *)
(* the panel record after the call, and one action applies it.             *)
(*                                                                         *)
(* Units.  Python floats are modelled in fixed point:                      *)
(*   time            milliseconds          (0.05 s = 50)                   *)
(*   position        micro-pixels          (1 px = 1000000)                *)
(*   velocity        milli-pixels / second (420 px/s = 420000)             *)
(*   bob phase       micro-radians, bob speed milli-radians / second       *)
(*   camera shake    thousandths                                           *)
(*   difficulty      1/5000ths             (1.0 = 5000, 1+score/5000 =     *)
(*                                          5000+score)                    *)
(*   spawn / speed multipliers  hundredths (1.25 = 125)                    *)
(* so that x += vx*dt is exact for whole-millisecond dt.  The kill award   *)
(* int(100 * (1 + (combo-1)*0.2)) is computed in IEEE-754 binary64, as     *)
(* Python computes it (operators F*, below).                               *)
(*                                                                         *)
(* Not modelled: drawing (on_paint, Sprite.draw, Particle.draw), bitmaps,  *)
(* the cloud lists and the animation counters, and the pressed-key set     *)
(* self.keys, which on_key_down/on_key_up write and nothing reads.         *)
(***************************************************************************)
EXTENDS Integers, Sequences, FiniteSets, TLC

VARIABLES
    gp,             \* the GamePanel object's fields (see Construct)
    now,            \* time.time(), ms
    highscore_txt,  \* the content of highscore.txt (a character sequence), or NoFile
    ev,             \* observation: what the last handler call was and did
    todo,           \* the events of the session's opening still to come
    nsteps,         \* number of handler calls after the opening (bounds the exploration)
    probe           \* two sprites and the outcome of Sprite.intersects on them (SpecIntersects)

vars == <<gp, now, highscore_txt, ev, todo, nsteps, probe>>

----------------------------------------------------------------------------
(* Program constants *)

WINDOW_W == 480
WINDOW_H == 640
MAX_BULLETS == 4
SHOOT_COOLDOWN == 280
SPECIAL_COOLDOWN == 3000
GRAVITY == 900
FLAP_STRENGTH == 0 - 320000
DT_CAP == 50
COMBO_WINDOW == 3000
RAIN_COUNT == 120
BURST_COUNT == 6

PX == 1000 * 1000
GROUND_Y == (WINDOW_H - 60) * PX
SPAWN_X == 60 * PX
SPAWN_Y == (WINDOW_H \div 2) * PX
None == 0 - 1

Max(a, b) == IF a >= b THEN a ELSE b
Min(a, b) == IF a <= b THEN a ELSE b

\* self.difficulty_presets: mult in 1/5000ths, the rest in hundredths
\* (gravity in thousandths)
difficulty_presets ==
    << [name |-> "Easy",   mult |-> 4000, spawn_rate |-> 80,  enemy_speed |-> 85,  gravity |-> 900],
       [name |-> "Normal", mult |-> 5000, spawn_rate |-> 100, enemy_speed |-> 100, gravity |-> 1000],
       [name |-> "Hard",   mult |-> 6000, spawn_rate |-> 120, enemy_speed |-> 115, gravity |-> 1050],
       [name |-> "Insane", mult |-> 7500, spawn_rate |-> 150, enemy_speed |-> 140, gravity |-> 1100] >>

\* self.theme_sequence
theme_sequence == << [theme |-> "rainy", threshold |-> 500],
                     [theme |-> "sunny", threshold |-> 1500] >>

----------------------------------------------------------------------------
(* Sprite *)

\* Sprite.__init__ as used for the two player entities
Sprite(x, y, w, h) == [x |-> x, y |-> y, w |-> w, h |-> h, vx |-> 0, vy |-> 0]

\* Sprite.__init__ plus the bullet attributes the shooters attach
Bullet(x, y, w, h, vx, vy, type, lifetime) ==
    [x |-> x, y |-> y, w |-> w, h |-> h, vx |-> vx, vy |-> vy,
     bullet_type |-> type, lifetime |-> lifetime, age |-> 0]

\* Sprite.update: x += vx*dt; y += vy*dt
SpriteUpdate(s, dt) == [s EXCEPT !.x = @ + s.vx * dt, !.y = @ + s.vy * dt]

\* Faulty variant of Sprite.intersects: boxes whose edges only touch do not intersect
IntersectsStrict(a, b) ==
    ~ (a.x + a.w * PX <= b.x \/ a.x >= b.x + b.w * PX \/
       a.y + a.h * PX <= b.y \/ a.y >= b.y + b.h * PX)

\* Sprite.intersects
Intersects(a, b) ==
    ~ (a.x + a.w * PX < b.x \/ a.x > b.x + b.w * PX \/
       a.y + a.h * PX < b.y \/ a.y > b.y + b.h * PX)

----------------------------------------------------------------------------
(* highscore.txt *)

NoFile == << "absent" >>
Digits == << "0", "1", "2", "3", "4", "5", "6", "7", "8", "9" >>

DigitVal(c) == CHOOSE d \in 0..9 : Digits[d + 1] = c
IsDigit(c) == \E d \in 0..9 : Digits[d + 1] = c

\* str(n) for n >= 0: decimal digits, most significant first
RECURSIVE Str(_)
Str(n) == IF n < 10 THEN << Digits[n + 1] >>
          ELSE Append(Str(n \div 10), Digits[(n % 10) + 1])

\* s.strip(): leading and trailing blanks and newlines removed
IsSpace(c) == c \in {" ", "\n"}
RECURSIVE LStrip(_)
LStrip(s) == IF s # << >> /\ IsSpace(Head(s)) THEN LStrip(Tail(s)) ELSE s
RECURSIVE RStrip(_)
RStrip(s) == IF s # << >> /\ IsSpace(s[Len(s)]) THEN RStrip(SubSeq(s, 1, Len(s) - 1)) ELSE s
Strip(s) == RStrip(LStrip(s))

RECURSIVE DigitsVal(_)
DigitsVal(s) == IF s = << >> THEN 0
                ELSE DigitsVal(SubSeq(s, 1, Len(s) - 1)) * 10 + DigitVal(s[Len(s)])

\* int(text) succeeds on an optional sign followed by one or more digits
IsIntText(s) ==
    LET body == IF s # << >> /\ Head(s) \in {"+", "-"} THEN Tail(s) ELSE s
    IN  body # << >> /\ \A i \in 1..Len(body) : IsDigit(body[i])
IntOf(s) ==
    IF Head(s) = "-" THEN 0 - DigitsVal(Tail(s))
    ELSE IF Head(s) = "+" THEN DigitsVal(Tail(s))
    ELSE DigitsVal(s)

\* GamePanel.load_high_score: 0 when the file is missing or malformed
load_high_score(file) ==
    IF file = NoFile THEN 0
    ELSE IF IsIntText(Strip(file)) THEN IntOf(Strip(file))
    ELSE 0

\* Faulty variant of save_high_score: the file is opened for appending
save_high_score_append(g, file) ==
    IF file = NoFile THEN Str(g.high_score) ELSE file \o Str(g.high_score)

\* GamePanel.save_high_score: the file's new content (the write is taken to succeed)
save_high_score(g, file) == Str(g.high_score)

----------------------------------------------------------------------------
(* GamePanel.__init__ *)

Construct(file, t0) ==
    [ last_time |-> t0, dt |-> 0,
      current_character |-> "bird",
      bird  |-> Sprite(SPAWN_X, SPAWN_Y, 34, 24),
      snake |-> Sprite(SPAWN_X, SPAWN_Y, 40, 20),
      player |-> "bird",
      bullets |-> << >>, enemies |-> << >>, particles |-> << >>,
      spawn_timer |-> 0, score |-> 0, combo |-> 0, combo_timer |-> 0,
      running |-> TRUE, paused |-> FALSE,
      last_shot |-> 0 - 10000, last_special |-> 0 - 10000,
      difficulty_index |-> 2,
      difficulty |-> difficulty_presets[2].mult,
      high_score |-> load_high_score(file),
      camera_shake |-> 0,
      theme_stage |-> 0, theme |-> "sunny",
      theme_spawn_boost |-> 100, theme_enemy_speed_boost |-> 100,
      raindrops |-> << >> ]

\* self.player: the entity the player reference points at
Player(g) == IF g.player = "bird" THEN g.bird ELSE g.snake
SetPlayer(g, s) == IF g.player = "bird" THEN [g EXCEPT !.bird = s]
                   ELSE [g EXCEPT !.snake = s]

----------------------------------------------------------------------------
(* Weapons *)

\* GamePanel.trigger_shake
trigger_shake(g, intensity) == [g EXCEPT !.camera_shake = intensity]

\* GamePanel.shoot_bird: one straight projectile from the bird's beak
shoot_bird(g) ==
    LET bx == g.bird.x + g.bird.w * PX
        by == g.bird.y + (g.bird.h \div 2) * PX - 4 * PX
    IN  [g EXCEPT !.bullets = Append(@, Bullet(bx, by, 8, 8, 420000, 0, "normal", None))]

\* speed * (cos(angle), sin(angle)) for angles [0, -0.3, 0.3], speed 380
SnakeCone == << <<380000, 0>>, <<363028, 0 - 112298>>, <<363028, 112298>> >>

\* GamePanel.shoot_snake: a cone of three venom pellets
shoot_snake(g) ==
    LET bx == g.snake.x + g.snake.w * PX
        by == g.snake.y + (g.snake.h \div 2) * PX
        pellets == [i \in 1..Len(SnakeCone) |->
                       Bullet(bx, by, 6, 6, SnakeCone[i][1], SnakeCone[i][2], "venom", 3000)]
    IN  [g EXCEPT !.bullets = @ \o pellets]

\* GamePanel.shoot
shoot(g) == IF g.current_character = "bird" THEN shoot_bird(g) ELSE shoot_snake(g)

\* Faulty variant of try_shoot: the capacity test is left out
try_shoot_nocap(g, t) ==
    IF t - g.last_shot < SHOOT_COOLDOWN THEN g
    ELSE [shoot(g) EXCEPT !.last_shot = t]

\* GamePanel.try_shoot
try_shoot(g, t) ==
    IF t - g.last_shot < SHOOT_COOLDOWN THEN g
    ELSE IF Len(g.bullets) >= MAX_BULLETS THEN g
    ELSE [shoot(g) EXCEPT !.last_shot = t]

\* speed * (cos(angle), sin(angle)) for angles [-0.4, -0.2, 0, 0.2, 0.4], speed 450
BirdFan == << <<414477, 0 - 175238>>, <<441030, 0 - 89401>>, <<450000, 0>>,
              <<441030, 89401>>, <<414477, 175238>> >>

\* GamePanel.special_bird_attack: a fan of five bullets
special_bird_attack(g) ==
    LET bx == g.bird.x + g.bird.w * PX
        by == g.bird.y + (g.bird.h \div 2) * PX
        fan == [i \in 1..Len(BirdFan) |->
                   Bullet(bx, by, 8, 8, BirdFan[i][1], BirdFan[i][2], "special", None)]
    IN  [g EXCEPT !.bullets = @ \o fan]

\* speed * (cos, sin)(2*pi*i/8), i = 0..7, speed 250
SnakeRing == << <<250000, 0>>, <<176777, 176777>>, <<0, 250000>>, <<0 - 176777, 176777>>,
                <<0 - 250000, 0>>, <<0 - 176777, 0 - 176777>>, <<0, 0 - 250000>>,
                <<176777, 0 - 176777>> >>

\* GamePanel.special_snake_attack: a ring of eight venom pellets
special_snake_attack(g) ==
    LET cx == g.snake.x + (g.snake.w \div 2) * PX
        cy == g.snake.y + (g.snake.h \div 2) * PX
        ring == [i \in 1..Len(SnakeRing) |->
                    Bullet(cx, cy, 7, 7, SnakeRing[i][1], SnakeRing[i][2], "special_venom", 2000)]
    IN  [g EXCEPT !.bullets = @ \o ring]

\* Faulty variant of special_attack: no camera shake
special_attack_quiet(g) ==
    IF g.current_character = "bird" THEN special_bird_attack(g)
    ELSE special_snake_attack(g)

\* GamePanel.special_attack
special_attack(g) ==
    trigger_shake(IF g.current_character = "bird" THEN special_bird_attack(g)
                  ELSE special_snake_attack(g), 6000)

\* Faulty variant of try_special_attack: the ammo cap blocks the special too
try_special_attack_capped(g, t) ==
    IF t - g.last_special < SPECIAL_COOLDOWN THEN g
    ELSE IF Len(g.bullets) >= MAX_BULLETS THEN g
    ELSE [special_attack(g) EXCEPT !.last_special = t]

\* GamePanel.try_special_attack
try_special_attack(g, t) ==
    IF t - g.last_special < SPECIAL_COOLDOWN THEN g
    ELSE [special_attack(g) EXCEPT !.last_special = t]

----------------------------------------------------------------------------
(* Restart and character toggle *)

\* Faulty variant of reset: the theme and its boosts start over
reset_sunny(g) ==
    LET h == IF g.score > g.high_score THEN g.score ELSE g.high_score
    IN  [g EXCEPT !.bullets = << >>, !.enemies = << >>, !.particles = << >>,
                  !.high_score = h,
                  !.score = 0, !.combo = 0, !.combo_timer = 0,
                  !.bird.x = SPAWN_X, !.bird.y = SPAWN_Y, !.bird.vx = 0, !.bird.vy = 0,
                  !.snake.x = SPAWN_X, !.snake.y = SPAWN_Y, !.snake.vx = 0, !.snake.vy = 0,
                  !.running = TRUE, !.paused = FALSE,
                  !.camera_shake = 0, !.difficulty = 5000,
                  !.theme = "sunny", !.theme_spawn_boost = 100,
                  !.theme_enemy_speed_boost = 100, !.raindrops = << >>]

\* Faulty variant of reset: the particle list is not cleared
reset_keeps_particles(g) ==
    LET h == IF g.score > g.high_score THEN g.score ELSE g.high_score
    IN  [g EXCEPT !.bullets = << >>, !.enemies = << >>,
                  !.high_score = h,
                  !.score = 0, !.combo = 0, !.combo_timer = 0,
                  !.bird.x = SPAWN_X, !.bird.y = SPAWN_Y, !.bird.vx = 0, !.bird.vy = 0,
                  !.snake.x = SPAWN_X, !.snake.y = SPAWN_Y, !.snake.vx = 0, !.snake.vy = 0,
                  !.running = TRUE, !.paused = FALSE,
                  !.camera_shake = 0, !.difficulty = 5000]

\* Faulty variant of reset: the theme stage starts over
reset_theme_restart(g) ==
    LET h == IF g.score > g.high_score THEN g.score ELSE g.high_score
    IN  [g EXCEPT !.bullets = << >>, !.enemies = << >>, !.particles = << >>,
                  !.high_score = h,
                  !.score = 0, !.combo = 0, !.combo_timer = 0,
                  !.bird.x = SPAWN_X, !.bird.y = SPAWN_Y, !.bird.vx = 0, !.bird.vy = 0,
                  !.snake.x = SPAWN_X, !.snake.y = SPAWN_Y, !.snake.vx = 0, !.snake.vy = 0,
                  !.running = TRUE, !.paused = FALSE,
                  !.camera_shake = 0, !.difficulty = 5000,
                  !.theme_stage = 0]

\* GamePanel.reset, the panel's fields (the file is written by ResetFile)
reset(g) ==
    LET h == IF g.score > g.high_score THEN g.score ELSE g.high_score
    IN  [g EXCEPT !.bullets = << >>, !.enemies = << >>, !.particles = << >>,
                  !.high_score = h,
                  !.score = 0, !.combo = 0, !.combo_timer = 0,
                  !.bird.x = SPAWN_X, !.bird.y = SPAWN_Y, !.bird.vx = 0, !.bird.vy = 0,
                  !.snake.x = SPAWN_X, !.snake.y = SPAWN_Y, !.snake.vx = 0, !.snake.vy = 0,
                  !.running = TRUE, !.paused = FALSE,
                  !.camera_shake = 0, !.difficulty = 5000]

\* Faulty variant of ResetFile: the file is rewritten on every restart
ResetFileAlways(g, file) ==
    save_high_score([g EXCEPT !.high_score = Max(g.score, g.high_score)], file)

\* GamePanel.reset, the file: save_high_score runs only when the score beat the record
ResetFile(g, file) ==
    IF g.score > g.high_score
    THEN save_high_score([g EXCEPT !.high_score = g.score], file)
    ELSE file

\* Faulty variant of toggle_character: the tag changes, the player reference stays
toggle_character_tag_only(g) ==
    LET g1 == [g EXCEPT !.current_character = IF @ = "bird" THEN "snake" ELSE "bird"]
    IN  SetPlayer(g1, [Player(g1) EXCEPT !.x = SPAWN_X, !.y = SPAWN_Y, !.vy = 0])

\* GamePanel.toggle_character
toggle_character(g) ==
    LET g1 == IF g.current_character = "bird"
              THEN [g EXCEPT !.current_character = "snake", !.player = "snake"]
              ELSE [g EXCEPT !.current_character = "bird", !.player = "bird"]
    IN  SetPlayer(g1, [Player(g1) EXCEPT !.x = SPAWN_X, !.y = SPAWN_Y, !.vy = 0])

----------------------------------------------------------------------------
(* on_key_down *)

Keys == {"SPACE", "P", "R", "Z", "C", "X", "D", "OTHER"}

\* Faulty variant of on_key_down: flap, fire, special and toggle need a Running session
on_key_down_live(g, key, t) ==
    CASE key = "P" -> [g EXCEPT !.paused = ~ @]
      [] key = "R" -> reset(g)
      [] key = "D" ->
            LET i == (g.difficulty_index % Len(difficulty_presets)) + 1
            IN  [g EXCEPT !.difficulty_index = i, !.difficulty = difficulty_presets[i].mult]
      [] key = "SPACE" /\ g.running /\ ~ g.paused ->
            SetPlayer(g, [Player(g) EXCEPT !.vy = FLAP_STRENGTH])
      [] key = "Z" /\ g.running /\ ~ g.paused -> try_shoot(g, t)
      [] key = "C" /\ g.running /\ ~ g.paused -> toggle_character(g)
      [] key = "X" /\ g.running /\ ~ g.paused -> try_special_attack(g, t)
      [] OTHER -> g

\* Faulty variant of on_key_down: the pause key also resumes a finished game
on_key_down_revive(g, key, t) ==
    CASE key = "SPACE" -> SetPlayer(g, [Player(g) EXCEPT !.vy = FLAP_STRENGTH])
      [] key = "P" -> [g EXCEPT !.paused = ~ @, !.running = TRUE]
      [] key = "R" -> reset(g)
      [] key = "Z" -> try_shoot(g, t)
      [] key = "C" -> toggle_character(g)
      [] key = "X" -> try_special_attack(g, t)
      [] key = "D" ->
            LET i == (g.difficulty_index % Len(difficulty_presets)) + 1
            IN  [g EXCEPT !.difficulty_index = i, !.difficulty = difficulty_presets[i].mult]
      [] OTHER -> g

\* GamePanel.on_key_down (difficulty_index is 1-based here: Python's index + 1)
on_key_down(g, key, t) ==
    CASE key = "SPACE" -> SetPlayer(g, [Player(g) EXCEPT !.vy = FLAP_STRENGTH])
      [] key = "P" -> [g EXCEPT !.paused = ~ @]
      [] key = "R" -> reset(g)
      [] key = "Z" -> try_shoot(g, t)
      [] key = "C" -> toggle_character(g)
      [] key = "X" -> try_special_attack(g, t)
      [] key = "D" ->
            LET i == (g.difficulty_index % Len(difficulty_presets)) + 1
            IN  [g EXCEPT !.difficulty_index = i, !.difficulty = difficulty_presets[i].mult]
      [] OTHER -> g

----------------------------------------------------------------------------
(* IEEE-754 binary64 arithmetic, for the kill award.  A natural number is a *)
(* little-endian bit sequence without leading zeros; a float is m * 2^e     *)
(* with m such a number of at most 53 bits.                                 *)

RECURSIVE BitsOf(_)
BitsOf(n) == IF n = 0 THEN << >> ELSE << n % 2 >> \o BitsOf(n \div 2)

RECURSIVE BToInt(_)
BToInt(b) == IF b = << >> THEN 0 ELSE Head(b) + 2 * BToInt(Tail(b))

RECURSIVE BTrim(_)
BTrim(b) == IF b # << >> /\ b[Len(b)] = 0 THEN BTrim(SubSeq(b, 1, Len(b) - 1)) ELSE b

RECURSIVE BAddC(_, _, _)
BAddC(a, b, c) ==
    IF a = << >> /\ b = << >> THEN (IF c = 1 THEN << 1 >> ELSE << >>)
    ELSE LET x == IF a = << >> THEN 0 ELSE Head(a)
             y == IF b = << >> THEN 0 ELSE Head(b)
             s == x + y + c
         IN  << s % 2 >> \o BAddC(IF a = << >> THEN a ELSE Tail(a),
                                  IF b = << >> THEN b ELSE Tail(b), s \div 2)
BAdd(a, b) == BAddC(a, b, 0)

BShl(a, k) == IF a = << >> THEN a ELSE [i \in 1..k |-> 0] \o a

\* a * b by shift and add over the bits of b
RECURSIVE BMulBy(_, _)
BMulBy(a, b) ==
    IF a = << >> \/ b = << >> THEN << >>
    ELSE LET rest == BShl(BMulBy(a, Tail(b)), 1)
         IN  IF Head(b) = 1 THEN BAdd(a, rest) ELSE rest
BMul(a, b) == IF Len(b) <= Len(a) THEN BMulBy(a, b) ELSE BMulBy(b, a)

\* Round m * 2^e to 53 significant bits, to nearest, ties to even
FRound(m, e) ==
    IF Len(m) <= 53 THEN [m |-> m, e |-> e]
    ELSE LET d == Len(m) - 53
             kept == SubSeq(m, d + 1, Len(m))
             guard == m[d]
             sticky == \E i \in 1..(d - 1) : m[i] = 1
             up == guard = 1 /\ (sticky \/ kept[1] = 1)
             k2 == IF up THEN BAdd(kept, << 1 >>) ELSE kept
         IN  IF Len(k2) > 53 THEN [m |-> SubSeq(k2, 2, Len(k2)), e |-> e + d + 1]
             ELSE [m |-> k2, e |-> e + d]

FFromInt(n) == [m |-> BitsOf(n), e |-> 0]
FMul(a, b) == FRound(BMul(a.m, b.m), a.e + b.e)
FAdd(a, b) ==
    LET e == Min(a.e, b.e)
    IN  FRound(BAdd(BShl(a.m, a.e - e), BShl(b.m, b.e - e)), e)
\* int(x) for x >= 0: truncation
FTrunc(a) ==
    IF a.e >= 0 THEN BToInt(BShl(a.m, a.e))
    ELSE IF 0 - a.e >= Len(a.m) THEN 0
    ELSE BToInt(SubSeq(a.m, 1 - a.e, Len(a.m)))

\* The double nearest 0.2 is 0x1999999999999A * 2^-55
RECURSIVE HexBits(_)
HexBits(h) ==
    IF h = << >> THEN << >>
    ELSE LET d == h[Len(h)]
         IN  << d % 2, (d \div 2) % 2, (d \div 4) % 2, d \div 8 >>
             \o HexBits(SubSeq(h, 1, Len(h) - 1))
F02 == [m |-> BTrim(HexBits(<< 1, 9, 9, 9, 9, 9, 9, 9, 9, 9, 9, 9, 9, 10 >>)), e |-> 0 - 55]

\* Faulty variant of the kill award: a kill costs 100 points
KillPenalty(combo) == 0 - 100

\* int(base_score * multiplier), base_score = 100, multiplier = 1 + (combo - 1) * 0.2
AwardOf(combo) ==
    FTrunc(FMul(FFromInt(100), FAdd(FFromInt(1), FMul(FFromInt(combo - 1), F02))))
\* the same values, computed once
AwardTable == [c \in 1..48 |-> AwardOf(c)]
KillAward(combo) == IF combo \in DOMAIN AwardTable THEN AwardTable[combo] ELSE AwardOf(combo)

----------------------------------------------------------------------------
(* Random draws.  random.random(), randint and uniform are inputs: a frame  *)
(* gets one record rnd = [enemy, burst, rain] naming the values drawn.      *)

\* One spawn_enemy draw: t picks the species, h the height, y the altitude of
\* a flier (px), speed = base + random()*range (px/s), bob_amp (milli-px),
\* bob_speed (milli-rad/s)
EnemyDrawOK(d) ==
    /\ d.t \in {"snake", "eagle", "crocodile", "owl"}
    /\ d.t = "snake" => /\ d.h \in 20..36 /\ d.speed \in 150..190
                        /\ d.bob_amp \in 2000..6000 /\ d.bob_speed \in 1000..2000
    /\ d.t = "eagle" => /\ d.h \in 28..44 /\ d.y \in 20..(WINDOW_H - 160) /\ d.speed \in 200..280
                        /\ d.bob_amp \in 6000..14000 /\ d.bob_speed \in 800..1600
    /\ d.t = "crocodile" => /\ d.h \in 22..32 /\ d.speed \in 100..130
                            /\ d.bob_amp \in 1000..3000 /\ d.bob_speed \in 600..1200
    /\ d.t = "owl" => /\ d.h \in 30..42 /\ d.y \in 40..(WINDOW_H - 140) /\ d.speed \in 120..170
                      /\ d.bob_amp \in 8000..16000 /\ d.bob_speed \in 1500..2500

EnemyDraws ==
    { [t |-> "snake", h |-> 30, y |-> 0, speed |-> 190, bob_amp |-> 2000, bob_speed |-> 1000],
      [t |-> "eagle", h |-> 40, y |-> 300, speed |-> 280, bob_amp |-> 6000, bob_speed |-> 1600],
      [t |-> "crocodile", h |-> 32, y |-> 0, speed |-> 100, bob_amp |-> 3000, bob_speed |-> 600],
      [t |-> "owl", h |-> 42, y |-> 330, speed |-> 170, bob_amp |-> 8000, bob_speed |-> 2500] }

BurstDraws == 1..2
RainDraws == 1..2
Rnd == [enemy : EnemyDraws, burst : BurstDraws, rain : RainDraws]

\* The i-th particle of a burst drawn as pattern p: direction, speed in
\* 80..200 px/s, and whether it sparkles (random() < 0.3)
BurstVel(p, i) ==
    LET dir == SnakeRing[((i + 3 * p) % 8) + 1]
        speed == 80 + 20 * i
    IN  << (dir[1] \div 250) * speed, (dir[2] \div 250) * speed >>
BurstSparkle(p, i) == (i + p) % 3 = 0

\* The i-th raindrop drawn as pattern p: randint(0, W), randint(-H, 0), uniform(200, 400)
RainDrop(p, i) ==
    [x |-> ((i * 37 + p * 101) % (WINDOW_W + 1)) * PX,
     y |-> 0 - ((i * 53 + p * 7) % (WINDOW_H + 1)) * PX,
     v |-> 200000 + ((i * 29 + p * 13) % 201) * 1000]
\* A recycled raindrop: uniform(-H*0.5, -5), uniform(0, W)
RainRecycle(rd, p, i) ==
    [rd EXCEPT !.y = 0 - (5 + ((i * 17 + p * 3) % 316)) * PX,
               !.x = ((i * 41 + p) % (WINDOW_W + 1)) * PX]

----------------------------------------------------------------------------
(* spawn_enemy, spawn_particles *)

\* math.sin in thousandths, of an angle in micro-radians (Bhaskara's rational
\* approximation on each half period; error below 0.002)
SinMilli(phase) ==
    LET x == (phase \div 1000) % 6283
        h == IF x <= 3142 THEN x ELSE x - 3142
        p == h * (3142 - h)
        v == (1600 * (p \div 10)) \div ((49360820 - 4 * p) \div 100)
    IN  IF x <= 3142 THEN v ELSE 0 - v

\* Faulty variant of the speed factor: the difficulty term is not offset by 1.0,
\* (difficulty - 1.0) * 0.3 * preset_speed * theme_enemy_speed_boost
EnemySpeedNoOffset(g, speed) ==
    LET v1 == (speed * (3 * g.difficulty - 15000)) \div 50
        v2 == (v1 * difficulty_presets[g.difficulty_index].enemy_speed) \div 100
    IN  (v2 * g.theme_enemy_speed_boost) \div 100

\* speed_factor applied to a base speed (px/s), giving milli-px/s:
\* (1.0 + (difficulty - 1.0) * 0.3) * preset_speed * theme_enemy_speed_boost
EnemySpeed(g, speed) ==
    LET v1 == (speed * (35000 + 3 * g.difficulty)) \div 50
        v2 == (v1 * difficulty_presets[g.difficulty_index].enemy_speed) \div 100
    IN  (v2 * g.theme_enemy_speed_boost) \div 100

\* GamePanel.spawn_enemy
spawn_enemy(g, d) ==
    LET w == CASE d.t = "snake" -> 48 [] d.t = "eagle" -> 52
               [] d.t = "crocodile" -> 56 [] OTHER -> 44
        y == IF d.t \in {"snake", "crocodile"} THEN GROUND_Y - d.h * PX ELSE d.y * PX
        enemy == [x |-> WINDOW_W * PX, y |-> y, w |-> w, h |-> d.h,
                  vx |-> 0 - EnemySpeed(g, d.speed), vy |-> 0,
                  base_y |-> y, bob_phase |-> 0,
                  bob_amp |-> d.bob_amp, bob_speed |-> d.bob_speed,
                  enemy_type |-> d.t]
    IN  [g EXCEPT !.enemies = Append(@, enemy)]

\* GamePanel.spawn_particles, count particles of lifetime 0.5 s
spawn_particles(g, x, y, color, count, p) ==
    LET burst == [i \in 1..count |->
                    [x |-> x, y |-> y, vx |-> BurstVel(p, i)[1], vy |-> BurstVel(p, i)[2],
                     color |-> IF BurstSparkle(p, i) THEN "sparkle" ELSE color,
                     lifetime |-> 500, age |-> 0]]
    IN  [g EXCEPT !.particles = @ \o burst]

----------------------------------------------------------------------------
(* on_timer, stage by stage *)

IsTimed(b) == b.bullet_type \in {"venom", "special_venom"}

\* Faulty variant of the clamp: the cap is 0.1 s
ClampDtLoose(d) == IF d > 2 * DT_CAP THEN 2 * DT_CAP ELSE d

\* if dt > 0.05: dt = 0.05
ClampDt(d) == IF d > DT_CAP THEN DT_CAP ELSE d

\* Faulty variant of the physics: no ceiling clamp
PhysicsNoCeiling(g, dt) ==
    LET pl == Player(g)
        gravity_scale == difficulty_presets[g.difficulty_index].gravity
        vy1 == pl.vy + (GRAVITY * gravity_scale * dt) \div 1000
        y1 == pl.y + vy1 * dt
        low == y1 + pl.h * PX > GROUND_Y
    IN  SetPlayer(g, [pl EXCEPT !.y = IF low THEN GROUND_Y - pl.h * PX ELSE y1,
                                !.vy = IF low THEN 0 ELSE vy1])

\* physics: gravity scaled by the preset, then the ceiling and ground clamps
Physics(g, dt) ==
    LET pl == Player(g)
        gravity_scale == difficulty_presets[g.difficulty_index].gravity
        vy1 == pl.vy + (GRAVITY * gravity_scale * dt) \div 1000
        y1 == pl.y + vy1 * dt
        top == y1 < 0
        y2 == IF top THEN 0 ELSE y1
        vy2 == IF top THEN 0 ELSE vy1
        low == y2 + pl.h * PX > GROUND_Y
    IN  SetPlayer(g, [pl EXCEPT !.y = IF low THEN GROUND_Y - pl.h * PX ELSE y2,
                                !.vy = IF low THEN 0 ELSE vy2])

\* update bullets: move, age the venom kinds, drop the expired and the escaped
BulletStep(b, dt) ==
    LET b1 == SpriteUpdate(b, dt)
    IN  IF IsTimed(b1) THEN [b1 EXCEPT !.age = @ + dt] ELSE b1
BulletGone(b) ==
    \/ IsTimed(b) /\ b.age >= b.lifetime
    \/ b.x > WINDOW_W * PX
UpdateBullets(g, dt) ==
    LET moved == [i \in 1..Len(g.bullets) |-> BulletStep(g.bullets[i], dt)]
    IN  [g EXCEPT !.bullets = SelectSeq(moved, LAMBDA b : ~ BulletGone(b))]

\* Faulty variant of the spawn test: a timer equal to the interval spawns too
SpawnDueInclusive(g, timer) ==
    LET base_spawn == Max(600, 1200 - g.score)
        rate == difficulty_presets[g.difficulty_index].spawn_rate * g.theme_spawn_boost
    IN  timer >= 180 /\ timer * rate >= base_spawn * 10000

\* spawn_timer > spawn_interval, spawn_interval = max(0.18, base_spawn / spawn_rate_mul),
\* base_spawn = max(0.6, 1.2 - score/1000)
SpawnDue(g, timer) ==
    LET base_spawn == Max(600, 1200 - g.score)
        rate == difficulty_presets[g.difficulty_index].spawn_rate * g.theme_spawn_boost
    IN  timer > 180 /\ timer * rate > base_spawn * 10000

\* spawn enemies
Spawn(g, dt, d) ==
    LET timer == g.spawn_timer + dt
    IN  IF SpawnDue(g, timer) THEN spawn_enemy([g EXCEPT !.spawn_timer = 0], d)
        ELSE [g EXCEPT !.spawn_timer = timer]

\* Faulty variant of the difficulty update: the value is left as it was
UpdateDifficultyKept(g) == g

\* update difficulty based on score: 1.0 + score / 5000.0
UpdateDifficulty(g) == [g EXCEPT !.difficulty = 5000 + g.score]

\* Faulty variant of the theme check: entering a theme does not advance the stage
ThemeStepStuck(g, p) ==
    IF g.theme_stage < Len(theme_sequence)
    THEN LET nxt == theme_sequence[g.theme_stage + 1]
         IN  IF g.score >= nxt.threshold
             THEN [g EXCEPT !.theme = nxt.theme,
                            !.theme_spawn_boost = 125, !.theme_enemy_speed_boost = 115,
                            !.raindrops = @ \o [i \in 1..RAIN_COUNT |-> RainDrop(p, i)]]
             ELSE g
    ELSE g

\* check theme transitions based on score thresholds
ThemeStep(g, p) ==
    IF g.theme_stage < Len(theme_sequence)
    THEN LET nxt == theme_sequence[g.theme_stage + 1]
         IN  IF g.score >= nxt.threshold
             THEN LET g1 == [g EXCEPT !.theme = nxt.theme]
                      g2 == IF g1.theme = "rainy"
                            THEN [g1 EXCEPT !.theme_spawn_boost = 125,
                                            !.theme_enemy_speed_boost = 115,
                                            !.raindrops = @ \o [i \in 1..RAIN_COUNT |-> RainDrop(p, i)]]
                            ELSE IF g1.theme = "sunny"
                            THEN [g1 EXCEPT !.theme_spawn_boost = 100,
                                            !.theme_enemy_speed_boost = 100,
                                            !.raindrops = << >>]
                            ELSE g1
                  IN  [g2 EXCEPT !.theme_stage = @ + 1]
             ELSE g
    ELSE g

\* advance the bobbing phase, then Sprite.update
EnemyMove(e, dt) ==
    LET e1 == IF e.bob_amp # 0 /\ e.bob_speed # 0
              THEN LET ph == e.bob_phase + e.bob_speed * dt
                   IN  [e EXCEPT !.bob_phase = ph, !.y = e.base_y + SinMilli(ph) * e.bob_amp]
              ELSE e
    IN  SpriteUpdate(e1, dt)

\* self.bullets.remove(b): the first element equal to b goes
RECURSIVE RemoveFirst(_, _)
RemoveFirst(seq, b) ==
    IF seq = << >> THEN seq
    ELSE IF Head(seq) = b THEN Tail(seq)
    ELSE << Head(seq) >> \o RemoveFirst(Tail(seq), b)

\* Faulty variant of the hit: the bullet stays in the list
HitKeepsBullet(g, e, b, p) ==
    LET c == g.combo + 1
        g1 == [g EXCEPT !.combo = c, !.combo_timer = COMBO_WINDOW,
                        !.score = @ + KillAward(c)]
        ex == e.x + (e.w \div 2) * PX
        ey == e.y + (e.h \div 2) * PX
    IN  trigger_shake(spawn_particles(g1, ex, ey, e.enemy_type, BURST_COUNT, p), 3000)

\* the body of "if e.intersects(b)": the bullet goes, the kill is scored
\* (the enemy's own removal is EnemyLoop's)
Hit(g, e, b, p) ==
    LET c == g.combo + 1
        g1 == [g EXCEPT !.bullets = RemoveFirst(@, b),
                        !.combo = c, !.combo_timer = COMBO_WINDOW,
                        !.score = @ + KillAward(c)]
        ex == e.x + (e.w \div 2) * PX
        ey == e.y + (e.h \div 2) * PX
    IN  trigger_shake(spawn_particles(g1, ex, ey, e.enemy_type, BURST_COUNT, p), 3000)

\* for b in list(self.bullets): bs is what is left of the snapshot
RECURSIVE BulletLoop(_, _, _, _)
BulletLoop(g, e, bs, p) ==
    IF bs = << >> THEN g
    ELSE BulletLoop(IF Intersects(e, Head(bs)) THEN Hit(g, e, Head(bs), p) ELSE g,
                    e, Tail(bs), p)

\* the player collision: game over, combo reset, shake
PlayerHit(g) == trigger_shake([g EXCEPT !.running = FALSE, !.combo = 0], 8000)

\* for e in list(self.enemies): es is what is left of the snapshot; g.enemies
\* holds the enemies already visited and still in the list
RECURSIVE EnemyLoop(_, _, _, _)
EnemyLoop(g, es, dt, p) ==
    IF es = << >> THEN g
    ELSE LET e == EnemyMove(Head(es), dt)
         IN  IF e.x + e.w * PX < 0 THEN EnemyLoop(g, Tail(es), dt, p)
             ELSE LET g1 == IF Intersects(e, Player(g)) THEN PlayerHit(g) ELSE g
                      shot == \E i \in 1..Len(g1.bullets) : Intersects(e, g1.bullets[i])
                      g2 == BulletLoop(g1, e, g1.bullets, p)
                      g3 == IF shot THEN g2 ELSE [g2 EXCEPT !.enemies = Append(@, e)]
                  IN  EnemyLoop(g3, Tail(es), dt, p)

\* update enemies and collisions
UpdateEnemies(g, dt, p) == EnemyLoop([g EXCEPT !.enemies = << >>], g.enemies, dt, p)

\* Faulty variant of the combo timer: the combo survives a timer of exactly 0
ComboTimerStrict(g, dt) ==
    LET ct == g.combo_timer - dt
    IN  [g EXCEPT !.combo_timer = ct, !.combo = IF ct < 0 THEN 0 ELSE @]

\* update combo timer (reset combo if too long without a hit)
ComboTimer(g, dt) ==
    LET ct == g.combo_timer - dt
    IN  [g EXCEPT !.combo_timer = ct, !.combo = IF ct <= 0 THEN 0 ELSE @]

\* Faulty variant of the particle update: a particle whose age equals its
\* lifetime stays one more frame
UpdateParticlesLate(g, dt) ==
    LET moved == [i \in 1..Len(g.particles) |->
                     [g.particles[i] EXCEPT !.x = @ + g.particles[i].vx * dt,
                                            !.y = @ + g.particles[i].vy * dt,
                                            !.age = @ + dt]]
    IN  [g EXCEPT !.particles = SelectSeq(moved, LAMBDA q : q.age <= q.lifetime)]

\* Particle.update, and the removal of the particles whose age reached their lifetime
UpdateParticles(g, dt) ==
    LET moved == [i \in 1..Len(g.particles) |->
                     [g.particles[i] EXCEPT !.x = @ + g.particles[i].vx * dt,
                                            !.y = @ + g.particles[i].vy * dt,
                                            !.age = @ + dt]]
    IN  [g EXCEPT !.particles = SelectSeq(moved, LAMBDA q : q.age < q.lifetime)]

\* update camera shake: max(0, camera_shake - dt * 15)
ShakeDecay(g, dt) == [g EXCEPT !.camera_shake = Max(0, @ - dt * 15)]

\* update raindrops when in rainy theme
UpdateRain(g, dt, p) ==
    IF g.theme = "rainy"
    THEN [g EXCEPT !.raindrops =
              [i \in 1..Len(g.raindrops) |->
                  LET rd == [g.raindrops[i] EXCEPT !.y = @ + g.raindrops[i].v * dt]
                  IN  IF rd.y > WINDOW_H * PX THEN RainRecycle(rd, p, i) ELSE rd] \o << >>]
    ELSE g

\* a Running frame up to the enemy loop
BeforeEnemies(g, dt, rnd) ==
    LET g1 == Physics(g, dt)
        g2 == UpdateBullets(g1, dt)
        g3 == Spawn(g2, dt, rnd.enemy)
        g4 == UpdateDifficulty(g3)
    IN  ThemeStep(g4, rnd.rain)

\* a Running frame after the enemy loop
AfterEnemies(g, dt, rnd) ==
    LET g7 == ComboTimer(g, dt)
        g8 == UpdateParticles(g7, dt)
        g9 == ShakeDecay(g8, dt)
    IN  UpdateRain(g9, dt, rnd.rain)

\* on_timer past the pause test: a Running frame
Frame(g, dt, rnd) ==
    AfterEnemies(UpdateEnemies(BeforeEnemies(g, dt, rnd), dt, rnd.burst), dt, rnd)

\* Faulty variant of on_timer: a paused or finished session is still simulated
on_timer_always(g, t, rnd) ==
    LET dt == ClampDt(t - g.last_time)
    IN  Frame([g EXCEPT !.last_time = t, !.dt = dt], dt, rnd)

\* GamePanel.on_timer
on_timer(g, t, rnd) ==
    LET dt == ClampDt(t - g.last_time)
        g0 == [g EXCEPT !.last_time = t, !.dt = dt]
    IN  IF ~ g0.running \/ g0.paused THEN g0 ELSE Frame(g0, dt, rnd)

----------------------------------------------------------------------------
(* The program and its environment: a world is the panel, the clock and the *)
(* file.  An event is one handler call with its inputs: the time elapsed    *)
(* since the previous call and, for a frame, the random draws.              *)

R0 == CHOOSE r \in Rnd : r.enemy.t = "snake" /\ r.burst = 1 /\ r.rain = 1
TimerEv(d, rnd) == [op |-> "timer", key |-> "", d |-> d, rnd |-> rnd]
KeyEv(key, d) == [op |-> "key", key |-> key, d |-> d, rnd |-> R0]

\* The world after one handler call
Step(w, e) ==
    LET t == w.now + e.d
    IN  IF e.op = "timer"
        THEN [gp |-> on_timer(w.gp, t, e.rnd), now |-> t, file |-> w.file]
        ELSE [gp |-> on_key_down(w.gp, e.key, t), now |-> t,
              file |-> IF e.key = "R" THEN ResetFile(w.gp, w.file) ELSE w.file]

\* The world when the panel has just been constructed
Boot(file) == [gp |-> Construct(file, 0), now |-> 0, file |-> file]

----------------------------------------------------------------------------
(* Specification *)

MaxSteps == 3

\* Time elapsed between two handler calls (ms)
FrameDeltas == {20, 50, 3000}
\* for a key press, only the two attack keys read the clock
KeyDeltas(key) == IF key \in {"Z", "X"} THEN {0, 300} ELSE {0}

\* n frames of 50 ms each, every spawn a ground snake
Frames(n) == [i \in 1..n |-> TimerEv(50, R0)]

\* A flap and five frames, n times over
Hop == << KeyEv("SPACE", 0) >> \o Frames(5)
RECURSIVE Hops(_)
Hops(n) == IF n = 0 THEN << >> ELSE Hop \o Hops(n - 1)

\* A flap and one frame, n times over
RECURSIVE Flaps(_)
Flaps(n) == IF n = 0 THEN << >> ELSE << KeyEv("SPACE", 0), TimerEv(50, R0) >> \o Flaps(n - 1)

\* Sessions the exploration starts from, each the constructor's state
\* followed by a fixed sequence of handler calls
Scenes ==
    { \* the panel as constructed
      [file |-> NoFile, lead |-> << >>, script |-> << >>],
      \* the bird on the ground, a snake enemy 6 px ahead of it
      [file |-> << "1", "2", "0", "\n" >>, lead |-> << >>, script |-> Frames(64)],
      \* the snake character on the ground, a snake enemy 9.5 px ahead of it
      [file |-> NoFile, lead |-> << >>, script |-> << KeyEv("C", 0) >> \o Frames(63)],
      \* one bird bullet and three venom pellets in flight
      [file |-> NoFile, lead |-> << >>, script |-> << KeyEv("Z", 0), KeyEv("C", 0), KeyEv("Z", 300) >>],
      \* four special attacks fired during a pause, the enemy just ahead of them
      [file |-> NoFile,
       lead |-> << >>, script |-> Frames(63) \o << KeyEv("P", 0), KeyEv("X", 0), KeyEv("X", 3000),
                                    KeyEv("X", 3000), KeyEv("X", 3000), KeyEv("P", 0) >>],
      \* paused, two bird bullets fired from the same spot, an enemy 25 px
      \* ahead of them
      [file |-> NoFile,
       lead |-> << >>, script |-> Frames(62) \o << KeyEv("P", 0), KeyEv("Z", 0), KeyEv("Z", 300) >>],
      \* a score of 700 at theme stage 0: the bird's fan, fired during a pause,
      \* has hit the enemy ahead of it five times
      [file |-> NoFile,
       lead |-> << >>, script |-> Frames(62) \o << KeyEv("P", 0), KeyEv("X", 0), KeyEv("P", 0),
                                    TimerEv(50, R0) >>],
      \* the same session 2.9 s of simulated time later, the bird kept in the
      \* air above the enemies: the combo of 5 has 0.05 s left
      [file |-> NoFile,
       lead |-> Frames(62) \o << KeyEv("P", 0), KeyEv("X", 0), KeyEv("P", 0),
                                  TimerEv(50, R0) >>,
       script |-> Hops(11) \o << KeyEv("SPACE", 0) >> \o Frames(3)],
      \* 1.15 s into a session: spawn_timer one frame short of the first interval
      [file |-> NoFile, lead |-> << >>, script |-> Frames(23)],
      \* Hard preset, 1.0 s into a session: the next frame spawns, and a bird
      \* bullet fired in mid-air is 8 px short of the right edge
      [file |-> NoFile, lead |-> << >>,
       script |-> << KeyEv("D", 0) >> \o Frames(3) \o << KeyEv("Z", 0) >> \o Frames(17)],
      \* a snake spawned under the Easy preset caught up by one spawned under
      \* Insane, both 40 px ahead of the bird, which has just fired
      [file |-> NoFile,
       lead |-> << KeyEv("D", 0), KeyEv("D", 0), KeyEv("D", 0) >> \o Frames(31),
       script |-> << KeyEv("D", 0), KeyEv("D", 0), KeyEv("D", 0) >> \o Frames(41)
                  \o << KeyEv("Z", 0) >>],
      \* the bird flapped up to 3.75 px below the ceiling, and flapping again
      [file |-> NoFile, lead |-> << >>, script |-> Flaps(23) \o << KeyEv("SPACE", 0) >>],
      \* the game lost to the first enemy, then two special attacks 3 s apart
      [file |-> NoFile, lead |-> << >>,
       script |-> Frames(66) \o << KeyEv("X", 0), KeyEv("X", 3000) >>] }

\* The draws a frame can use: one value stands for a draw the frame never reads
Draws(g, dt) ==
    LET live == g.running /\ ~ g.paused
        spawns == live /\ SpawnDue(g, g.spawn_timer + dt)
        kills == live /\ g.bullets # << >> /\ (g.enemies # << >> \/ spawns)
        rains == live /\ (\/ g.theme = "rainy"
                           \/ /\ g.theme_stage < Len(theme_sequence)
                              /\ g.score >= theme_sequence[g.theme_stage + 1].threshold)
    IN  { r \in Rnd : /\ spawns \/ r.enemy = R0.enemy
                      /\ kills \/ r.burst = R0.burst
                      /\ rains \/ r.rain = R0.rain }

\* What the last handler call was, and a few values from before it
Seen(e, g) == [op |-> e.op, key |-> e.key, d |-> e.d, rnd |-> e.rnd,
               running |-> g.running, paused |-> g.paused,
               score |-> g.score, high_score |-> g.high_score,
               theme_stage |-> g.theme_stage, combo |-> g.combo,
               bullets |-> g.bullets, enemies |-> g.enemies]

\* no sprites under test
NoProbe == [called |-> FALSE]

\* The panel is constructed; the events of one scene are to come
Init ==
    \E sc \in Scenes :
        LET w == Boot(sc.file)
        IN  /\ gp = w.gp
            /\ now = w.now
            /\ highscore_txt = w.file
            /\ ev = Seen([op |-> "init", key |-> "", d |-> 0, rnd |-> R0], w.gp)
            /\ todo = sc.lead \o sc.script
            /\ nsteps = 0
            /\ probe = NoProbe

\* One handler call: the next event of the opening while there is one, any
\* event after it
Do(e) ==
    LET w == Step([gp |-> gp, now |-> now, file |-> highscore_txt], e)
        opening == todo # << >>
    IN  /\ IF opening THEN e = Head(todo) ELSE nsteps < MaxSteps
        /\ gp' = w.gp
        /\ now' = w.now
        /\ highscore_txt' = w.file
        /\ ev' = Seen(e, gp)
        /\ todo' = IF opening THEN Tail(todo) ELSE todo
        /\ nsteps' = IF opening THEN nsteps ELSE nsteps + 1
        /\ UNCHANGED probe

\* the wx.Timer fires
OnTimer ==
    IF todo # << >>
    THEN Head(todo).op = "timer" /\ Do(Head(todo))
    ELSE \E d \in FrameDeltas : \E r \in Draws(gp, ClampDt(now + d - gp.last_time)) :
             Do(TimerEv(d, r))

\* a key goes down
OnKeyDown ==
    IF todo # << >>
    THEN Head(todo).op = "key" /\ Do(Head(todo))
    ELSE \E key \in Keys : \E d \in KeyDeltas(key) : Do(KeyEv(key, d))

Next == OnTimer \/ OnKeyDown

Spec == Init /\ [][Next]_vars

----------------------------------------------------------------------------
(* Specification of Sprite.intersects alone: two sprites drawn from a grid of
   whole-pixel boxes, then one call each way *)

MaxCoord == 3
MaxSize == 2

\* Sprite.__init__ with whole-pixel position and size (w or h of 0: a point or a line)
Boxes == { Sprite(x * PX, y * PX, w, h) : x \in 0..MaxCoord, y \in 0..MaxCoord,
                                           w \in 0..MaxSize, h \in 0..MaxSize }

InitIntersects ==
    /\ gp = Boot(NoFile).gp
    /\ now = Boot(NoFile).now
    /\ highscore_txt = NoFile
    /\ ev = Seen([op |-> "init", key |-> "", d |-> 0, rnd |-> R0], gp)
    /\ todo = << >>
    /\ nsteps = 0
    /\ \E a \in Boxes, b \in Boxes : probe = [a |-> a, b |-> b, called |-> FALSE]

\* a.intersects(b) and b.intersects(a)
CallIntersects ==
    /\ ~ probe.called
    /\ probe' = [a |-> probe.a, b |-> probe.b, called |-> TRUE,
                 ab |-> Intersects(probe.a, probe.b),
                 ba |-> Intersects(probe.b, probe.a)]
    /\ UNCHANGED <<gp, now, highscore_txt, ev, todo, nsteps>>

NextIntersects == CallIntersects

SpecIntersects == InitIntersects /\ [][NextIntersects]_vars

----------------------------------------------------------------------------
(* Specification of the high-score file alone: a panel holding some high
   score, a file in some state, then save_high_score and load_high_score
   called in any order *)

MaxScore == 120
MaxCalls == 3

\* values of high_score: the small ones, and a few of more digits
Scores == 0..MaxScore \cup {4200, 99999, 1000000}
\* highscore.txt before the calls: absent, a number, a number and a newline, not a number
Files == { NoFile, << "7" >>, << "4", "2", "0", "0", "\n" >>, << "x" >> }

InitHighScore ==
    /\ \E n \in Scores : gp = [Boot(NoFile).gp EXCEPT !.high_score = n]
    /\ now = 0
    /\ \E f \in Files : highscore_txt = f
    /\ ev = [op |-> "init"]
    /\ todo = << >>
    /\ nsteps = 0
    /\ probe = NoProbe

\* self.save_high_score()
SaveHighScore ==
    /\ nsteps < MaxCalls
    /\ highscore_txt' = save_high_score(gp, highscore_txt)
    /\ ev' = [op |-> "save"]
    /\ nsteps' = nsteps + 1
    /\ UNCHANGED <<gp, now, todo, probe>>

\* self.high_score = self.load_high_score()
LoadHighScore ==
    /\ nsteps < MaxCalls
    /\ gp' = [gp EXCEPT !.high_score = load_high_score(highscore_txt)]
    /\ ev' = [op |-> "load"]
    /\ nsteps' = nsteps + 1
    /\ UNCHANGED <<highscore_txt, now, todo, probe>>

NextHighScore == SaveHighScore \/ LoadHighScore

SpecHighScore == InitHighScore /\ [][NextHighScore]_vars

----------------------------------------------------------------------------

(* Specification of the long run: after an opening with its key presses the
   timer keeps firing, the clock is read from the last frame on, and one
   enemy or projectile of the collections is followed from state to state
   until it is gone *)

\* Time elapsed between two timer callbacks (ms)
RunDeltas == {50}

\* Openings of the long run, the player landed in each: the bird alone, after
\* frames of 50 ms and after frames of 20 ms; the bird, its bullet and its
\* fan on their way to the first enemy; the snake character with its ring and
\* its cone in flight; the Easy preset picked one frame before the first
\* spawn; a score of 700 in the Rainy theme
RunScenes ==
    { Frames(16),
      [i \in 1..41 |-> TimerEv(20, R0)],
      Frames(30) \o << KeyEv("X", 0), KeyEv("Z", 0) >>,
      << KeyEv("C", 0) >> \o Frames(16) \o << KeyEv("X", 0), KeyEv("Z", 0) >>,
      Frames(24) \o << KeyEv("D", 0), KeyEv("D", 0), KeyEv("D", 0) >>,
      Frames(62) \o << KeyEv("P", 0), KeyEv("X", 0), KeyEv("P", 0), TimerEv(50, R0) >> }

\* The handlers read time.time() only in differences with last_time,
\* last_shot and last_special, combo_timer only in the test <= 0, and the
\* raindrops only to move and to paint them: the same panel with the clock's
\* origin moved to t, stamps older than the longest cooldown and a run-out
\* combo timer held at their bounds, and the raindrop pool left out
Rebase(g, t) ==
    [g EXCEPT !.last_time = @ - t,
              !.last_shot = Max(@ - t, 0 - 10000),
              !.last_special = Max(@ - t, 0 - 10000),
              !.combo_timer = Max(@, 0),
              !.raindrops = << >>]

\* nothing is followed
NoMark == [kind |-> "none"]

\* The followed item after a handler call e that took the panel from g to g1:
\* a Running frame moves it as it moves every enemy and every bullet, and it
\* is followed as long as the collection holds it
Follow(m, g, e, g1) ==
    LET dt == ClampDt(e.d - g.last_time)
        ran == e.op = "timer" /\ g.running /\ ~ g.paused
        held(s, seq) == \E i \in 1..Len(seq) : seq[i] = s
    IN  CASE m.kind = "enemy" ->
               LET e1 == IF ran THEN EnemyMove(m.item, dt) ELSE m.item
               IN  IF held(e1, g1.enemies) THEN {[kind |-> "enemy", item |-> e1]} ELSE {NoMark}
          [] m.kind = "bullet" ->
               LET b1 == IF ran THEN BulletStep(m.item, dt) ELSE m.item
               IN  IF held(b1, g1.bullets) THEN {[kind |-> "bullet", item |-> b1]} ELSE {NoMark}
          [] OTHER ->
               {NoMark}
               \cup { [kind |-> "enemy", item |-> g1.enemies[i]] : i \in 1..Len(g1.enemies) }
               \cup { [kind |-> "bullet", item |-> g1.bullets[i]] : i \in 1..Len(g1.bullets) }

InitRun ==
    /\ gp = Boot(NoFile).gp
    /\ now = 0
    /\ highscore_txt = NoFile
    /\ ev = Seen([op |-> "init", key |-> "", d |-> 0, rnd |-> R0], gp)
    /\ \E sc \in RunScenes : todo = sc
    /\ nsteps = 0
    /\ probe = NoMark

\* One handler call of the long run
DoRun(e) ==
    LET w == Step([gp |-> gp, now |-> 0, file |-> highscore_txt], e)
        opening == todo # << >>
    IN  /\ opening => e = Head(todo)
        /\ gp' = Rebase(w.gp, w.now)
        /\ now' = 0
        /\ highscore_txt' = w.file
        /\ ev' = Seen(e, gp)
        /\ todo' = IF opening THEN Tail(todo) ELSE todo
        /\ nsteps' = nsteps
        /\ probe' \in Follow(probe, gp, e, w.gp)

\* the wx.Timer fires
OnTimerRun ==
    IF todo # << >>
    THEN Head(todo).op = "timer" /\ DoRun(Head(todo))
    ELSE \E d \in RunDeltas : \E r \in Draws(gp, ClampDt(d - gp.last_time)) :
             DoRun(TimerEv(d, r))

\* a key goes down: the keys of the opening
OnKeyDownRun ==
    todo # << >> /\ Head(todo).op = "key" /\ DoRun(Head(todo))

NextRun == OnTimerRun \/ OnKeyDownRun

SpecRun == InitRun /\ [][NextRun]_vars

----------------------------------------------------------------------------

(* Claims *)

\* The simulated step of the call that leads to the next state
NextDt == ClampDt(now' - gp.last_time)
IsTimer(e) == e.op = "timer"
IsKey(e, k) == e.op = "key" /\ e.key = k
Live(g) == g.running /\ ~ g.paused

\* The simulation state: both player entities, the three collections, and the
\* progression scalars
SimState(g) ==
    << g.bird, g.snake, g.bullets, g.enemies, g.particles, g.score, g.combo,
       g.combo_timer, g.spawn_timer, g.difficulty, g.theme, g.theme_stage >>

\* C1: a frame callback delivered while the session is Paused or GameOver
\* leaves the simulation state as it was, whatever time elapsed.
C1_IdleFrameChangesNothing ==
    [][ (IsTimer(ev') /\ ~ Live(gp)) => SimState(gp') = SimState(gp) ]_vars

\* C1 happens: a callback arrives three seconds late in a paused session that
\* holds bullets and enemies
C1_Witness ==
    /\ IsTimer(ev) /\ ev.d > DT_CAP /\ ev.running /\ ev.paused
    /\ gp.bullets # << >> /\ gp.enemies # << >>

\* The enemies as the enemy loop tests them in a frame of dt from g: moved,
\* and still on the playfield
Tested(g, dt, rnd) ==
    LET g5 == BeforeEnemies(g, dt, rnd)
        moved == [i \in 1..Len(g5.enemies) |-> EnemyMove(g5.enemies[i], dt)]
    IN  SelectSeq(moved, LAMBDA e : ~ (e.x + e.w * PX < 0))

\* Some tested enemy overlaps the active player in a frame of dt from g
HitsPlayer(g, dt, rnd) ==
    LET es == Tested(g, dt, rnd)
    IN  \E i \in 1..Len(es) : Intersects(es[i], Player(BeforeEnemies(g, dt, rnd)))

\* C2: a Running frame in which an enemy on the playfield overlaps the active
\* player ends with running = false and combo = 0.
C2_CollisionEndsWithComboZero ==
    [][ (IsTimer(ev') /\ Live(gp) /\ HitsPlayer(gp, NextDt, ev'.rnd))
            => (~ gp'.running /\ gp'.combo = 0) ]_vars

\* The projectiles of primary fire
Primary(g) == SelectSeq(g.bullets, LAMBDA b : b.bullet_type \in {"normal", "venom"})

\* C3: once running is false it stays false, and the score stays, under every
\* frame and every key but R; only restart sets running back to true.
C3_GameOverIsTerminal ==
    [][ /\ (~ gp.running /\ ~ IsKey(ev', "R")) => (~ gp'.running /\ gp'.score = gp.score)
        /\ (~ gp.running /\ gp'.running) => IsKey(ev', "R") ]_vars

\* C3 happens: a key other than R is handled in a finished session with a score
C3_Witness ==
    /\ ~ ev.running /\ ~ gp.running /\ gp.score > 0
    /\ ev.op = "key" /\ ev.key \in {"P", "X", "SPACE"}

\* C4: never more than 4 primary-fire projectiles in flight.
C4_PrimaryCap == Len(Primary(gp)) <= MAX_BULLETS

\* The bullets a tested enemy e overlaps, among bs
Overlapping(e, bs) == SelectSeq(bs, LAMBDA b : Intersects(e, b))

\* In a frame of dt from g no enemy touches the player, one tested enemy
\* overlaps exactly two projectiles, and the other enemies overlap none
TwoOnOne(g, dt, rnd) ==
    LET es == Tested(g, dt, rnd)
        g5 == BeforeEnemies(g, dt, rnd)
    IN  /\ ~ HitsPlayer(g, dt, rnd)
        /\ \E i \in 1..Len(es) :
               /\ Len(Overlapping(es[i], g5.bullets)) = 2
               /\ \A j \in 1..Len(es) \ {i} : Overlapping(es[j], g5.bullets) = << >>

\* C5: an enemy overlapping two projectiles in one frame is removed, both
\* projectiles are removed, and the kill is credited once.
C5_DoubleHitCreditedOnce ==
    [][ (IsTimer(ev') /\ Live(gp) /\ TwoOnOne(gp, NextDt, ev'.rnd))
            => LET g5 == BeforeEnemies(gp, NextDt, ev'.rnd)
               IN  /\ Len(gp'.enemies) = Len(Tested(gp, NextDt, ev'.rnd)) - 1
                   /\ Len(gp'.bullets) = Len(g5.bullets) - 2
                   /\ gp'.combo = gp.combo + 1
                   /\ gp'.score = gp.score + KillAward(gp.combo + 1) ]_vars

\* The award the scoring rule names for the n-th kill of a run
NthAward(n) == 100 + 20 * (n - 1)

\* The awards for the kills numbered from .. to of a run
RECURSIVE RunAwards(_, _)
RunAwards(from, to) == IF from > to THEN 0 ELSE NthAward(to) + RunAwards(from, to - 1)

\* C6: in a run of consecutive kills the N-th kill adds
\* floor(100 * (1 + (N-1) * 0.2)) = 100 + 20 * (N-1) to the score and leaves
\* combo = N; a frame that raises combo from c to c' adds the awards c+1 .. c'.
C6_NthKillAward ==
    [][ (/\ IsTimer(ev') /\ Live(gp)
         /\ ~ HitsPlayer(gp, NextDt, ev'.rnd)
         /\ gp'.combo > gp.combo)
            => gp'.score - gp.score = RunAwards(gp.combo + 1, gp'.combo) ]_vars

\* A primary-fire attempt at time t is blocked
BlockedPrimary(g, t) ==
    t - g.last_shot < SHOOT_COOLDOWN \/ Len(g.bullets) >= MAX_BULLETS

\* A special-attack attempt at time t is blocked
BlockedSpecial(g, t) == t - g.last_special < SPECIAL_COOLDOWN

\* C7: a blocked primary-fire or special-attack attempt changes nothing: no
\* projectile, last_shot, last_special, camera_shake and all the rest as before.
C7_BlockedAttemptIsNoOp ==
    [][ (\/ IsKey(ev', "Z") /\ BlockedPrimary(gp, now')
         \/ IsKey(ev', "X") /\ BlockedSpecial(gp, now'))
            => (gp' = gp /\ highscore_txt' = highscore_txt) ]_vars

\* C7 happens: Z was pressed with the cooldown over and exactly four
\* projectiles in flight, and a fifth was not added
C7_Witness ==
    /\ IsKey(ev, "Z") /\ now - gp.last_shot >= SHOOT_COOLDOWN
    /\ Len(gp.bullets) = MAX_BULLETS

\* A player entity at rest at the spawn point
AtSpawn(s) == s.x = 60 * PX /\ s.y = 320 * PX /\ s.vx = 0 /\ s.vy = 0

\* C8: restart leaves the three collections empty, score, combo and
\* combo_timer at 0, both player entities at rest at (60, 320), the difficulty
\* multiplier at 1.0, running true and paused false.
C8_ResetPostconditions ==
    [][ IsKey(ev', "R")
            => /\ gp'.bullets = << >> /\ gp'.enemies = << >> /\ gp'.particles = << >>
               /\ gp'.score = 0 /\ gp'.combo = 0 /\ gp'.combo_timer = 0
               /\ AtSpawn(gp'.bird) /\ AtSpawn(gp'.snake)
               /\ gp'.difficulty = 5000
               /\ gp'.running /\ ~ gp'.paused ]_vars

\* C8 happens: R was pressed in a finished session that had a score, and the
\* session runs again
C8_Witness ==
    /\ IsKey(ev, "R") /\ ~ ev.running /\ ev.score > 0
    /\ gp.running /\ gp.score = 0

C10_DtClamp ==
    [][ IsTimer(ev')
            => /\ gp'.dt <= DT_CAP
               /\ now' - gp.last_time > DT_CAP
                    => gp' = [on_timer(gp, gp.last_time + DT_CAP, ev'.rnd)
                                 EXCEPT !.last_time = now'] ]_vars

\* C10 happens: a callback came three seconds late in a running session with
\* enemies and projectiles moving
C10_Witness ==
    /\ IsTimer(ev) /\ ev.d > DT_CAP /\ ev.running /\ ~ ev.paused
    /\ gp.dt = DT_CAP /\ gp.enemies # << >> /\ gp.bullets # << >>

\* The projectile kinds the data model gives a fixed lifetime
Expiring(b) == b.bullet_type \in {"venom", "special", "special_venom"}

\* A bullet of g that the frame of dt neither carries past the right edge nor
\* into an enemy
StaysInPlay(g, b, dt, rnd) ==
    LET b1 == SpriteUpdate(b, dt)
        es == Tested(g, dt, rnd)
    IN  /\ ~ (b1.x > WINDOW_W * PX)
        /\ \A i \in 1..Len(es) : ~ Intersects(es[i], b1)

\* C11: every Venom, Special and SpecialVenom projectile has a fixed lifetime
\* and is gone by the end of the Running frame in which its age reaches it; a
\* Normal projectile leaves the collection in a frame only past the right edge
\* (or by hitting an enemy).
C11_TimedProjectilesExpire ==
    [][ (IsTimer(ev') /\ Live(gp))
            => /\ \A i \in 1..Len(gp'.bullets) :
                     Expiring(gp'.bullets[i])
                        => /\ gp'.bullets[i].lifetime # None
                           /\ gp'.bullets[i].age < gp'.bullets[i].lifetime
               /\ \A i \in 1..Len(gp.bullets) :
                     (gp.bullets[i].bullet_type = "normal"
                        /\ StaysInPlay(gp, gp.bullets[i], NextDt, ev'.rnd))
                        => \E j \in 1..Len(gp'.bullets) :
                               gp'.bullets[j] = SpriteUpdate(gp.bullets[i], NextDt) ]_vars

\* C12: cooldowns are in wall-clock time and independent: a primary fire that
\* succeeds comes at least 0.28 s after the last one that did, a special that
\* succeeds at least 3.0 s after the last one that did; neither stamps the
\* other's time; a special whose cooldown is over succeeds whatever the number
\* of projectiles in flight.  (last_shot and last_special hold the time of the
\* last success: nothing else writes them.)
C12_CooldownsIndependent ==
    [][ /\ IsKey(ev', "Z")
            => /\ gp'.last_special = gp.last_special
               /\ gp'.bullets # gp.bullets
                    => (now' - gp.last_shot >= SHOOT_COOLDOWN /\ gp'.last_shot = now')
               /\ gp'.bullets = gp.bullets => gp'.last_shot = gp.last_shot
        /\ IsKey(ev', "X")
            => /\ gp'.last_shot = gp.last_shot
               /\ gp'.bullets # gp.bullets
                    => (now' - gp.last_special >= SPECIAL_COOLDOWN /\ gp'.last_special = now')
               /\ gp'.bullets = gp.bullets => gp'.last_special = gp.last_special
               /\ now' - gp.last_special >= SPECIAL_COOLDOWN
                    => /\ Len(gp'.bullets) > Len(gp.bullets)
                       /\ gp'.last_special = now'
        /\ ~ (IsKey(ev', "Z") \/ IsKey(ev', "X"))
            => (gp'.last_shot = gp.last_shot /\ gp'.last_special = gp.last_special) ]_vars

\* C12 happens: a special has just succeeded with four primary projectiles in
\* flight, and the primary-fire time is still that of the earlier shot
C12_Witness ==
    /\ IsKey(ev, "X") /\ gp.last_special = now
    /\ gp.last_shot < now /\ gp.last_shot > 0
    /\ Len(Primary(gp)) >= MAX_BULLETS /\ Len(gp.bullets) > Len(Primary(gp))

\* C13: a Running frame across which the score does not change ends with
\* difficulty = 1 + score/5000, whatever presets were cycled or restarts made
\* before it.
C13_DifficultyFollowsScore ==
    [][ (IsTimer(ev') /\ Live(gp) /\ gp'.score = gp.score)
            => gp'.difficulty = 5000 + gp'.score ]_vars

\* C13 happens: a Running frame has left a positive score as it was, with a
\* preset other than Normal selected
C13_Witness ==
    /\ IsTimer(ev) /\ ev.running /\ ~ ev.paused
    /\ gp.score = ev.score /\ gp.score > 0 /\ gp.difficulty_index # 2
    /\ gp.difficulty = 5000 + gp.score

\* The raindrop pool has 120 entries in the rainy theme and none otherwise
PoolMatchesTheme(g) ==
    Len(g.raindrops) = IF g.theme = "rainy" THEN RAIN_COUNT ELSE 0

\* C14: the Running frame that starts with score >= 500 at theme stage 0
\* enters Rainy: boosts 1.25 and 1.15, a pool of exactly 120 raindrops, stage
\* 1; no later frame and no key regenerates or grows the pool; in every state
\* the pool has 120 entries when the theme is rainy and 0 otherwise.
C14_RainyEnteredOnce ==
    [][ /\ PoolMatchesTheme(gp) /\ PoolMatchesTheme(gp')
        /\ (IsTimer(ev') /\ Live(gp) /\ gp.theme_stage = 0 /\ gp.score >= 500)
            => /\ gp'.theme = "rainy" /\ gp'.theme_stage = 1
               /\ gp'.theme_spawn_boost = 125 /\ gp'.theme_enemy_speed_boost = 115
               /\ Len(gp'.raindrops) = RAIN_COUNT
        /\ ~ (IsTimer(ev') /\ Live(gp) /\ gp.theme_stage = 0 /\ gp.score >= 500)
            => /\ Len(gp'.raindrops) <= Len(gp.raindrops)
               /\ gp'.theme = "rainy"
                    => (/\ gp.theme = "rainy"
                        /\ gp'.theme_spawn_boost = gp.theme_spawn_boost
                        /\ gp'.theme_enemy_speed_boost = gp.theme_enemy_speed_boost) ]_vars

\* C14 happens: a Running frame that began in the Rainy stage with the score
\* still between 500 and 1500 has ended with the same pool size and boosts
C14_Witness ==
    /\ IsTimer(ev) /\ ev.running /\ ~ ev.paused
    /\ ev.theme_stage = 1 /\ ev.score >= 500 /\ gp.theme_stage = 1
    /\ gp.theme = "rainy" /\ Len(gp.raindrops) = RAIN_COUNT
    /\ gp.theme_spawn_boost = 125 /\ gp.theme_enemy_speed_boost = 115

\* The theme each stage shows: Sunny, then Rainy, then Sunny again
StageTheme(n) == IF n = 1 THEN "rainy" ELSE "sunny"

\* C15: theme_stage never decreases, grows by at most 1 in a step and only in
\* a Running frame whose score has reached the next threshold, never exceeds
\* 2, and is kept by restart; the theme is the one of the stage: Sunny,
\* Rainy (score >= 500), Sunny (score >= 1500).
C15_ThemeStageMonotone ==
    [][ /\ gp'.theme_stage \in {gp.theme_stage, gp.theme_stage + 1}
        /\ gp'.theme_stage <= Len(theme_sequence)
        /\ gp.theme = StageTheme(gp.theme_stage) /\ gp'.theme = StageTheme(gp'.theme_stage)
        /\ gp'.theme_stage # gp.theme_stage
            => /\ IsTimer(ev') /\ Live(gp)
               /\ gp.score >= (IF gp.theme_stage = 0 THEN 500 ELSE 1500) ]_vars

\* C15 happens: R was pressed in the Rainy stage, and the stage is still 1
\* with the score back at 0
C15_Witness ==
    /\ IsKey(ev, "R") /\ ev.theme_stage = 1 /\ ev.score >= 500
    /\ gp.theme_stage = 1 /\ gp.score = 0 /\ gp.theme = "rainy"

\* The step to the next state is a Running frame
RunningFrame == IsTimer(ev') /\ Live(gp)

\* What a Running frame does to the combo: a frame with a kill ends with
\* combo_timer = 3.0 - dt, one without takes dt off it; combo > 0 implies
\* combo_timer > 0 at its end; without a kill or a collision the combo is kept
\* while the timer is positive and is 0 from the frame on in which it is not
ComboInFrame ==
    RunningFrame
        => /\ gp'.combo_timer = (IF gp'.score > gp.score THEN COMBO_WINDOW
                                 ELSE gp.combo_timer) - NextDt
           /\ gp'.combo > 0 => gp'.combo_timer > 0
           /\ (gp'.score = gp.score /\ ~ HitsPlayer(gp, NextDt, ev'.rnd))
                => gp'.combo = IF gp'.combo_timer > 0 THEN gp.combo ELSE 0

\* C16 as stated: every kill sets combo_timer to 3.0, combo_timer decreases
\* only by the simulated dt of Running frames, and every Running frame ends
\* with combo > 0 implying combo_timer > 0, so that the combo is reset in the
\* first Running frame at which 3.0 s have accumulated since the kill.
C16_AsStated ==
    [][ /\ ComboInFrame
        /\ gp'.combo_timer < gp.combo_timer => RunningFrame ]_vars

\* C16: as stated, except that restart too lowers a positive combo_timer: it
\* sets it to 0 together with the combo.
C16_ComboExpiry ==
    [][ /\ ComboInFrame
        /\ gp'.combo_timer < gp.combo_timer
            => \/ RunningFrame
               \/ IsKey(ev', "R") /\ gp'.combo_timer = 0 /\ gp'.combo = 0 ]_vars

\* C16 happens: a Running frame without a kill has just taken the combo from
\* a positive value to 0, the timer having run out in it
C16_Witness ==
    /\ IsTimer(ev) /\ ev.running /\ ~ ev.paused /\ gp.running
    /\ ev.combo > 0 /\ gp.combo = 0 /\ gp.score = ev.score
    /\ gp.combo_timer <= 0 /\ gp.combo_timer > 0 - DT_CAP

\* The projectiles a key press appended, given that the old ones are a prefix
Appended == SubSeq(gp'.bullets, Len(gp.bullets) + 1, Len(gp'.bullets))

\* Every projectile of bs has the given kind and lifetime
AllOfKind(bs, kind, lifetime) ==
    \A i \in 1..Len(bs) : bs[i].bullet_type = kind /\ bs[i].lifetime = lifetime

TagMatchesPlayer(g) ==
    g.current_character \in {"bird", "snake"} /\ g.player = g.current_character

\* C18: exactly one character is active and the tag matches the active
\* entity in every state; a toggle switches to the other character and leaves
\* the newly active entity at (60, 320) with vertical velocity 0.
C18_OneActiveCharacter ==
    [][ /\ TagMatchesPlayer(gp) /\ TagMatchesPlayer(gp')
        /\ IsKey(ev', "C")
            => /\ gp'.current_character # gp.current_character
               /\ Player(gp').x = 60 * PX /\ Player(gp').y = 320 * PX
               /\ Player(gp').vy = 0 ]_vars

\* C18 happens: C was pressed in a finished session played as the snake; the
\* bird is active at the spawn point and the snake lies where it was
C18_Witness ==
    /\ IsKey(ev, "C") /\ ~ ev.running
    /\ gp.current_character = "bird" /\ gp.player = "bird"
    /\ gp.bird.x = 60 * PX /\ gp.bird.y = 320 * PX /\ gp.bird.vy = 0
    /\ gp.snake.y > 320 * PX


\* The boxes of the two sprites are strictly apart along x / along y
ApartX(a, b) == a.x + a.w * PX < b.x \/ b.x + b.w * PX < a.x
ApartY(a, b) == a.y + a.h * PX < b.y \/ b.y + b.h * PX < a.y

\* An edge of one box lies exactly on the facing edge of the other
Touching(a, b) ==
    \/ (a.x + a.w * PX = b.x \/ b.x + b.w * PX = a.x) /\ ~ ApartY(a, b)
    \/ (a.y + a.h * PX = b.y \/ b.y + b.h * PX = a.y) /\ ~ ApartX(a, b)

\* C19: Sprite.intersects is a boundary-inclusive box overlap test: it is false
\* exactly when the two boxes are strictly apart along x or along y, so boxes
\* whose edges touch intersect, and the outcome is the same both ways round.
C19_IntersectsInclusive ==
    probe.called =>
        /\ probe.ab = ~ (ApartX(probe.a, probe.b) \/ ApartY(probe.a, probe.b))
        /\ Touching(probe.a, probe.b) => probe.ab
        /\ probe.ab = probe.ba

\* two boxes of positive size that share only an edge, tested
C19_Witness ==
    /\ probe.called /\ probe.ab
    /\ probe.a.w > 0 /\ probe.a.h > 0 /\ probe.b.w > 0 /\ probe.b.h > 0
    /\ probe.a.x + probe.a.w * PX = probe.b.x
    /\ probe.a.y = probe.b.y


\* timer strictly exceeds max(0.18, max(0.6, 1.2 - score/1000) / (spawn_rate * boost))
\* (ms; spawn_rate and boost in hundredths)
ExceedsInterval(timer, score, spawn_rate, boost) ==
    /\ timer > 180
    /\ timer * spawn_rate * boost > (IF 1200 - score > 600 THEN 1200 - score ELSE 600) * 10000

\* The enemy was spawned in the frame of dt just run: it has moved once from the right edge
Fresh(e, dt) == e.x = WINDOW_W * PX + e.vx * dt

\* C20: a Running frame adds at most one enemy, and adds it only when the
\* accumulated spawn_timer strictly exceeds the interval
\* max(0.18, max(0.6, 1.2 - score/1000) / (spawn_rate * theme_spawn_boost)),
\* after which spawn_timer is 0 (otherwise it keeps the accumulated value); so
\* more than 0.18 s of simulated time lies between two spawns.
C20_SpawnPacing ==
    [][RunningFrame =>
        LET timer == gp.spawn_timer + NextDt
            due == ExceedsInterval(timer, gp.score,
                                   difficulty_presets[gp.difficulty_index].spawn_rate,
                                   gp.theme_spawn_boost)
            fresh == { i \in 1..Len(gp'.enemies) : Fresh(gp'.enemies[i], NextDt) }
        IN  /\ Len(gp'.enemies) <= Len(gp.enemies) + 1
            /\ Cardinality(fresh) <= 1
            /\ fresh # {} => due /\ timer > 180
            /\ ~ due => Len(gp'.enemies) <= Len(gp.enemies)
            /\ due /\ gp'.running /\ gp'.score = gp.score => Cardinality(fresh) = 1
            /\ gp'.spawn_timer = IF due THEN 0 ELSE timer]_vars

\* a Running frame has just spawned an enemy
C20_Witness ==
    /\ IsTimer(ev) /\ ev.running /\ ~ ev.paused
    /\ gp.spawn_timer = 0
    /\ \E i \in 1..Len(gp.enemies) : Fresh(gp.enemies[i], gp.dt)

\* C21: score >= 0 and combo >= 0 in every state, and the score never goes
\* down except by restart: every frame and every key event other than R
\* leaves it unchanged or raises it.
C21_ScoreMonotone ==
    [][ /\ gp.score >= 0 /\ gp.combo >= 0
        /\ gp'.score >= 0 /\ gp'.combo >= 0
        /\ ~ IsKey(ev', "R") => gp'.score >= gp.score ]_vars

\* a frame has raised the score
C21_Witness == IsTimer(ev) /\ gp.score > ev.score /\ gp.combo > 0

SpeedAt(m, speed, preset_speed, boost) ==
    LET scaled == (speed * (35000 + 3 * m)) \div 50
        preset == (scaled * preset_speed) \div 100
    IN  (preset * boost) \div 100

\* C23: an enemy spawned by a Running frame moves at its drawn base speed
\* times (1 + (m - 1) * 0.3) * preset.enemy_speed * theme_enemy_speed_boost,
\* where m = 1 + score/5000 for the score at the moment of spawning.
C23_SpawnSpeedFromScore ==
    [][RunningFrame =>
        \A i \in 1..Len(gp'.enemies) :
            Fresh(gp'.enemies[i], NextDt) =>
                gp'.enemies[i].vx =
                    0 - SpeedAt(5000 + gp.score, ev'.rnd.enemy.speed,
                                difficulty_presets[gp.difficulty_index].enemy_speed,
                                gp.theme_enemy_speed_boost)]_vars

\* The three collections, the raindrop pool and both player entities
Collections(g) == << g.bullets, g.enemies, g.particles, g.raindrops, g.bird, g.snake >>

\* The panel after the D key pressed n times at time t
RECURSIVE PressD(_, _, _)
PressD(g, n, t) == IF n = 0 THEN g ELSE PressD(on_key_down(g, "D", t), n - 1, t)

\* C24: the D key advances difficulty_index to (index + 1) mod 4 (1-based
\* here: index mod 4 + 1), so that the index stays among the four presets and
\* four presses restore it, and leaves the score-derived difficulty
\* multiplier, score, combo, theme and all collections unchanged.
C24_PresetCycleIndependent ==
    [][IsKey(ev', "D") =>
        /\ gp'.difficulty_index = (gp.difficulty_index % 4) + 1
        /\ gp'.difficulty_index \in 1..Len(difficulty_presets)
        /\ PressD(gp, 4, now').difficulty_index = gp.difficulty_index
        /\ gp'.difficulty = gp.difficulty
        /\ gp'.score = gp.score /\ gp'.combo = gp.combo
        /\ gp'.theme = gp.theme /\ gp'.theme_stage = gp.theme_stage
        /\ Collections(gp') = Collections(gp)]_vars

\* C25: the session is in exactly one of Running, Paused, GameOver, and
\* starts Running: no state has paused = true together with running = false.
C25_OneSessionState ==
    /\ ev.op = "init" => gp.running /\ ~ gp.paused
    /\ ~ (gp.paused /\ ~ gp.running)

\* The enemies es met in order by the bullets bs, each enemy taking every
\* bullet left that overlaps it: the enemies left, the enemies killed, the
\* bullets left
Spent(e, bs) == SelectSeq(bs, LAMBDA b : Intersects(e, b))
Unspent(e, bs) == SelectSeq(bs, LAMBDA b : ~ Intersects(e, b))
RECURSIVE Survivors(_, _)
Survivors(es, bs) ==
    IF es = << >> THEN << >>
    ELSE (IF Spent(Head(es), bs) = << >> THEN << Head(es) >> ELSE << >>)
         \o Survivors(Tail(es), Unspent(Head(es), bs))
RECURSIVE Killed(_, _)
Killed(es, bs) ==
    IF es = << >> THEN << >>
    ELSE (IF Spent(Head(es), bs) # << >> THEN << Head(es) >> ELSE << >>)
         \o Killed(Tail(es), Unspent(Head(es), bs))
RECURSIVE BulletsLeft(_, _)
BulletsLeft(es, bs) ==
    IF es = << >> THEN bs ELSE BulletsLeft(Tail(es), Unspent(Head(es), bs))

\* The kills a frame of dt has just credited: each left a burst of new particles
Credits(g, dt) ==
    Cardinality({ i \in 1..Len(g.particles) : g.particles[i].age = dt }) \div BURST_COUNT

\* Some bullet overlaps two of the enemies es
SharedBullet(es, bs) ==
    \E k \in 1..Len(bs) : \E i, j \in 1..Len(es) :
        i < j /\ Intersects(es[i], bs[k]) /\ Intersects(es[j], bs[k])

\* What a Running frame's enemy loop does with the bullets: each bullet is
\* taken by the first enemy in list order that overlaps it, credited once,
\* and not seen by the enemies after it; a killed enemy is gone from the list
LoopOutcome ==
    LET es == Tested(gp, NextDt, ev'.rnd)
        bs == BeforeEnemies(gp, NextDt, ev'.rnd).bullets
        dead == Killed(es, bs)
    IN  /\ gp'.enemies = Survivors(es, bs)
        /\ gp'.bullets = BulletsLeft(es, bs)
        /\ Credits(gp', NextDt) = Len(bs) - Len(gp'.bullets)
        /\ \A k \in 1..Len(dead) : \A i \in 1..Len(gp'.enemies) : gp'.enemies[i] # dead[k]

\* Every enemy the frame kills was in the list when the frame began
KilledWereAlive ==
    LET es == Tested(gp, NextDt, ev'.rnd)
        bs == BeforeEnemies(gp, NextDt, ev'.rnd).bullets
        dead == Killed(es, bs)
    IN  \A k \in 1..Len(dead) :
            \E i \in 1..Len(gp.enemies) : dead[k] = EnemyMove(gp.enemies[i], NextDt)

Gameplay(g) ==
    << g.running, g.paused, g.current_character, g.player, g.bird, g.snake,
       g.bullets, g.enemies, g.score, g.combo, g.combo_timer, g.high_score,
       g.spawn_timer, g.difficulty, g.difficulty_index,
       g.theme, g.theme_stage, g.theme_spawn_boost, g.theme_enemy_speed_boost,
       g.last_shot, g.last_special >>

\* Another particle collection the panel g could hold instead of its own:
\* none if it has some; if it has none, one particle a frame short of its
\* lifetime, lying on the player
OtherParticles(g) ==
    IF g.particles # << >> THEN { << >> }
    ELSE { << [x |-> Player(g).x, y |-> Player(g).y, vx |-> 80000, vy |-> 0,
               color |-> "sparkle", lifetime |-> 500, age |-> 480] >> }

\* The particles of a frame of dt from the list ps: aged, the expired dropped
Aged(ps, dt) ==
    SelectSeq([i \in 1..Len(ps) |-> [ps[i] EXCEPT !.x = @ + ps[i].vx * dt,
                                                  !.y = @ + ps[i].vy * dt,
                                                  !.age = @ + dt]],
              LAMBDA q : q.age < q.lifetime)

\* C27: particles are cosmetic.  The handler call that leads to the next
\* state, made on the same panel holding any other particle collection,
\* with the same elapsed time and draws, ends with the same flags, player,
\* projectiles, enemies, score, combo, difficulty and theme (and the same
\* file); and a Running frame keeps of the old particles exactly those whose
\* age is still below their lifetime, ahead of the ones it created.
C27_ParticlesCosmetic ==
    [][ /\ \A ps \in OtherParticles(gp) :
              LET w == Step([gp |-> [gp EXCEPT !.particles = ps], now |-> now,
                             file |-> highscore_txt], ev')
              IN  /\ Gameplay(w.gp) = Gameplay(gp')
                  /\ w.file = highscore_txt'
                  /\ RunningFrame =>
                        SubSeq(w.gp.particles, 1, Len(Aged(ps, NextDt))) = Aged(ps, NextDt)
        /\ RunningFrame =>
              LET kept == Aged(gp.particles, NextDt)
              IN  /\ Len(gp'.particles) >= Len(kept)
                  /\ SubSeq(gp'.particles, 1, Len(kept)) = kept
                  /\ \A i \in (Len(kept) + 1)..Len(gp'.particles) :
                        gp'.particles[i].age = NextDt ]_vars

\* a Running frame has aged the particles of an earlier kill, with bullets
\* and enemies in play
C27_Witness ==
    /\ IsTimer(ev) /\ ev.running /\ ~ ev.paused
    /\ \E i \in 1..Len(gp.particles) : gp.particles[i].age > gp.dt
    /\ gp.bullets # << >> /\ gp.enemies # << >>

\* The active player is vertically inside the playfield
InField(g) == 0 <= Player(g).y /\ Player(g).y + Player(g).h * PX <= (WINDOW_H - 60) * PX

\* Where gravity alone would take the active player in a frame of dt
FallTo(g, dt) ==
    LET vy1 == Player(g).vy
               + (GRAVITY * difficulty_presets[g.difficulty_index].gravity * dt) \div 1000
    IN  Player(g).y + vy1 * dt

\* C28: the active player's vertical position is inside the playfield in
\* every state, 0 <= y and y + h <= 580; a Running frame that clamps the
\* position to the ceiling or to the ground also sets vy to 0.
C28_PlayerInField ==
    [][ /\ InField(gp) /\ InField(gp')
        /\ RunningFrame /\ FallTo(gp, NextDt) < 0 =>
              Player(gp').y = 0 /\ Player(gp').vy = 0
        /\ RunningFrame /\ FallTo(gp, NextDt) + Player(gp).h * PX > (WINDOW_H - 60) * PX =>
              /\ Player(gp').y + Player(gp').h * PX = (WINDOW_H - 60) * PX
              /\ Player(gp').vy = 0 ]_vars

\* a Running frame has stopped a rising player at the ceiling
C28_Witness ==
    /\ IsTimer(ev) /\ ev.running /\ ~ ev.paused
    /\ Player(gp).y = 0 /\ Player(gp).vy = 0

\* The fields restart does not assign
Unlisted(g) ==
    << g.difficulty_index, g.theme, g.theme_stage, g.theme_spawn_boost,
       g.theme_enemy_speed_boost, g.raindrops, g.spawn_timer,
       g.last_shot, g.last_special, g.current_character, g.player >>

\* C29: restart leaves unchanged the selected preset, the theme, the theme
\* stage, both theme boosts, the raindrops, spawn_timer, both cooldown
\* timestamps and the active character; a session restarted while Rainy is at
\* score 0, still Rainy, with boosts 1.25 and 1.15.
C29_RestartKeepsUnlisted ==
    [][ IsKey(ev', "R") =>
          /\ Unlisted(gp') = Unlisted(gp)
          /\ gp'.score = 0
          /\ gp.theme = "rainy" =>
                /\ gp'.theme = "rainy"
                /\ gp'.theme_spawn_boost = 125
                /\ gp'.theme_enemy_speed_boost = 115 ]_vars

\* a restart at a positive score in the Rainy theme, with a non-zero spawn timer
C29_Witness ==
    /\ IsKey(ev, "R") /\ ev.score > 0 /\ gp.score = 0
    /\ gp.theme = "rainy" /\ gp.theme_stage = 1
    /\ gp.theme_spawn_boost = 125 /\ gp.theme_enemy_speed_boost = 115
    /\ gp.spawn_timer > 0

\* The session is Paused or GameOver
Halted(g) == ~ g.running \/ g.paused

\* Projectiles one attack of the active character appends
ShotSize(g) == IF g.current_character = "bird" THEN 1 ELSE 3
SpecialSize(g) == IF g.current_character = "bird" THEN 5 ELSE 8

\* C30: in Paused or GameOver a primary-fire key still appends projectiles
\* when cooldown and capacity allow, a special-attack key still appends them
\* when its cooldown allows, whatever the size of the collection, flap still
\* sets player.vy to -320 and toggle still repositions the player; frames
\* leave the projectiles as they are, and no key or frame but restart ends
\* the GameOver state.
C30_InputsIgnoreSessionState ==
    [][ Halted(gp) =>
          /\ IsKey(ev', "Z") /\ now' - gp.last_shot >= SHOOT_COOLDOWN
                             /\ Len(gp.bullets) < MAX_BULLETS =>
                /\ Len(gp'.bullets) = Len(gp.bullets) + ShotSize(gp)
                /\ SubSeq(gp'.bullets, 1, Len(gp.bullets)) = gp.bullets
          /\ IsKey(ev', "X") /\ now' - gp.last_special >= SPECIAL_COOLDOWN =>
                /\ Len(gp'.bullets) = Len(gp.bullets) + SpecialSize(gp)
                /\ SubSeq(gp'.bullets, 1, Len(gp.bullets)) = gp.bullets
          /\ IsKey(ev', "SPACE") => Player(gp').vy = 0 - 320000
          /\ IsKey(ev', "C") =>
                /\ gp'.current_character # gp.current_character
                /\ Player(gp').x = 60 * PX
                /\ Player(gp').y = (WINDOW_H \div 2) * PX
                /\ Player(gp').vy = 0
          /\ IsTimer(ev') => gp'.bullets = gp.bullets
          /\ ~ gp.running /\ ~ IsKey(ev', "R") => ~ gp'.running ]_vars

\* a second special attack in GameOver has grown a collection already over
\* the primary cap
C30_Witness ==
    /\ IsKey(ev, "X") /\ ~ ev.running /\ ~ gp.running
    /\ Len(ev.bullets) > MAX_BULLETS
    /\ Len(gp.bullets) = Len(ev.bullets) + SpecialSize(gp)

\* An item of the collections is being followed
Followed == probe.kind # "none"

\* A Running frame with dt > 0
RunningFrameStep == IsTimer(ev') /\ Live(gp) /\ gp'.dt > 0

\* C31: every enemy in the collection has a strictly negative horizontal
\* velocity, whatever difficulty, preset and theme it was spawned under, and
\* every projectile has a positive horizontal velocity or is of a kind that
\* ages towards a finite lifetime; and in a run with infinitely many Running
\* frames of dt > 0, every enemy and every projectile followed from the
\* collections is eventually gone from them.
C31_EventuallyRemoved ==
    /\ [](\A i \in 1..Len(gp.enemies) : gp.enemies[i].vx < 0)
    /\ [](\A i \in 1..Len(gp.bullets) :
              \/ gp.bullets[i].vx > 0
              \/ IsTimed(gp.bullets[i]) /\ gp.bullets[i].lifetime > 0)
    /\ ([]<><<RunningFrameStep>>_vars => (Followed ~> ~ Followed))

\* after the opening, a Running frame has just taken an enemy past the left
\* edge and out of the collection, and nothing is followed any more
C31_Witness ==
    /\ todo = << >> /\ IsTimer(ev) /\ ev.running /\ ~ ev.paused /\ gp.dt > 0
    /\ gp.running /\ probe = NoMark
    /\ \E i \in 1..Len(ev.enemies) :
          LET e == EnemyMove(ev.enemies[i], gp.dt)
          IN  /\ e.x + e.w * PX < 0
              /\ \A k \in 1..Len(gp.enemies) : gp.enemies[k] # e

====
